---- MODULE Spec2Model ----
(***************************************************************************)
(* Saarthi: camera-to-speech assistant.  Three prototypes are modelled:    *)
(*   "page"  src/app/page.tsx        OCR page reader                       *)
(*   "ocr"   src/unnamed/part_001    OCR page reader (second variant)      *)
(*   "obj"   src/unnamed/part_000    live object detection                 *)
(* The model covers the announcement scheduler (speechQueue, isSpeaking,   *)
(* the drain timers and the text-to-speech callbacks), the bilingual       *)
(* fan-out, the object-detection cycle and the OCR convergence counter.    *)
(*                                                                         *)
(* Time is in milliseconds.  The code only ever reads the clock through    *)
(* the difference Date.now() - lastAnnounceTime, so the model keeps that   *)
(* difference (elapsed), saturated at AgeCap, and every pending setTimeout *)
(* as the time that remains before it fires.                               *)
(* Texts are sequences of character codes; 0 is the space character.       *)
(***************************************************************************)
EXTENDS Integers, Sequences, FiniteSets, TLC

VARIABLES
    proto,              \* which prototype is running
    speechQueue,        \* speechQueue.current: pending {text, lang} (+ id)
    isSpeaking,         \* isSpeaking.current
    lastSpokenText,     \* lastSpokenText.current (lastSpoken in "obj")
    elapsed,            \* Date.now() - lastAnnounceTime.current, saturated
    timers,             \* pending setTimeout callbacks, in registration order
    ttsQueue,           \* utterances the speech engine holds (head = spoken)
    ttsStale,           \* cancelled utterances whose end/error is still due
    selectedLanguage,   \* React state selectedLanguage
    nextId,             \* history: id of the next accepted announcement
    accepted,           \* history: accepted[id] = how announcement id came in
    handed,             \* history: ids passed to speechSynthesis.speak, in order
    lastOp,             \* history: the step that led to this state
    bothEvt,            \* history: the last enqueueSpeakBoth with "both"
    model,              \* "obj": React state model (loaded or not)
    isStarted,          \* "obj": React state isStarted
    loops,              \* "obj": detection loops (one per effect run)
    obsWindow,          \* history: what the most recent cycles observed
    cycles,             \* history: detection cycles completed
    isCameraActive,     \* OCR: React state isCameraActive
    isProcessing,       \* OCR: React state isProcessing
    isBlindMode,        \* OCR: React state isBlindMode
    raf,                \* OCR: the pending animation frame of the scan loop
    previousText,       \* previousTextRef.current
    accumulatedText,    \* accumulatedTextRef.current
    scanCount,          \* scanCountRef.current
    ocrCalls,           \* Tesseract.recognize calls in flight
    scanHist,           \* history: OCR passes completed since the last reset
    voiceHi,            \* voiceHi.current is set (a Hindi voice was found)
    frame,              \* OCR: gray values of the frame preprocessImage reads
    otsuCalls,          \* history: the calls of calculateOtsuThreshold
    medianCalls,        \* history: the calls of medianFilter
    chunkCalls,         \* history: the calls of chunkText
    hasHindiVoice,      \* hasHindiVoice (React state; a ref in "obj")
    bound               \* history: the voice given to each utterance handed over

vars == <<proto, speechQueue, isSpeaking, lastSpokenText, elapsed, timers,
          ttsQueue, ttsStale, selectedLanguage, nextId, accepted, handed,
          lastOp, bothEvt, model, isStarted, loops, obsWindow, cycles,
          isCameraActive, isProcessing, isBlindMode, raf, previousText,
          accumulatedText, scanCount, ocrCalls, scanHist, voiceHi,
          hasHindiVoice, bound, frame, otsuCalls, medianCalls,
          chunkCalls>>

schedVars == <<speechQueue, isSpeaking, lastSpokenText, elapsed, timers,
               ttsQueue, ttsStale, nextId, accepted, handed, bound>>
voiceVars == <<voiceHi, hasHindiVoice>>
imgVars == <<frame, otsuCalls, medianCalls, chunkCalls>>
detVars == <<model, isStarted, loops, obsWindow, cycles>>
ocrVars == <<isCameraActive, isProcessing, isBlindMode, raf, previousText,
             accumulatedText, scanCount, ocrCalls, scanHist>>

----------------------------------------------------------------------------
(* Bounds of the model *)

\* accepted announcements in one behaviour
MaxUtter == 3
\* accepted announcements in one burst (SpecBurst)
MaxBurst == 12
MaxBurstDrains == 1
\* OCR passes between two resets of the scan state
MaxPasses == 5
\* announcements accepted before the OCR prototypes go silent
MaxOcrUtter == 5
\* Tesseract.recognize calls in flight at once
MaxCalls == 3
\* detection cycles in one behaviour
MaxCycles == 4
\* announcements accepted before the detection prototype goes silent
MaxDetectUtter == 2
\* detection loops alive at once
MaxLoops == 2
\* announcements accepted while the voice list changes (SpecVoice)
MaxVoiceUtter == 2
\* pixels of a frame, and calls of calculateOtsuThreshold in one behaviour
MaxPixels == 3
MaxOtsuCalls == 2
\* calls of medianFilter in one behaviour
MaxMedianCalls == 1

----------------------------------------------------------------------------
(* Program constants *)

Protos == {"page", "ocr", "obj"}
OcrProtos == {"page", "ocr"}

MIN_ANNOUNCE_GAP == 1200
DEDUP_WINDOW == 3000
QUEUE_LIMIT == 6
\* the largest value the code compares the clock difference with
AgeCap(p) == IF p = "obj" THEN MIN_ANNOUNCE_GAP ELSE DEDUP_WINDOW

\* setTimeout(processSpeechQueue, d) after a priority / a normal enqueue
PriorityDrainDelay(p) == IF p = "page" THEN 15 ELSE 40
DrainDelay(p) == IF p = "page" THEN 15 ELSE IF p = "ocr" THEN 25 ELSE 40
\* setTimeout(processSpeechQueue, d) in utter.onend / utter.onerror
EndBackoff(p) == IF p = "page" THEN 40 ELSE IF p = "ocr" THEN 60 ELSE 80
ErrorBackoff(p) == IF p = "page" THEN 100 ELSE 150
\* page.tsx: setTimeout(() => enqueue(en, "en", priority), 400)
BothEnglishDelay == 400

\* The stability window of the detection loop, W observations long, and the
\* two observation sequences it is exercised with.
MajorityYes == <<"cat", "cat", "dog", "cat">>
MajorityNo == <<"cat", "dog", "cat", "dog">>
W == Len(MajorityYes)

----------------------------------------------------------------------------
(* Helpers *)

Range(f) == {f[i] : i \in DOMAIN f}
Last(q) == q[Len(q)]
MinOf(S) == CHOOSE x \in S : \A y \in S : x <= y
NoText == <<>>
Ids(q) == {q[i].id : i \in DOMAIN q}

\* The scheduler's state as one value, so that handlers compose calls.
\* A handler is a closure of some render: hv is the hasHindiVoice that render
\* saw (here: the current one); voiceHi and hvRef are what the refs hold now.
Sched ==
    [proto |-> proto, speechQueue |-> speechQueue, isSpeaking |-> isSpeaking,
     lastSpokenText |-> lastSpokenText, elapsed |-> elapsed, timers |-> timers,
     ttsQueue |-> ttsQueue, ttsStale |-> ttsStale, nextId |-> nextId,
     accepted |-> accepted, handed |-> handed, bound |-> bound,
     hv |-> hasHindiVoice, hvRef |-> hasHindiVoice, voiceHi |-> voiceHi]

\* the same, for a handler of a render that saw hasHindiVoice = h
SchedOf(h) == [Sched EXCEPT !.hv = h]

SetSched(s) ==
    /\ speechQueue' = s.speechQueue
    /\ isSpeaking' = s.isSpeaking
    /\ lastSpokenText' = s.lastSpokenText
    /\ elapsed' = s.elapsed
    /\ timers' = s.timers
    /\ ttsQueue' = s.ttsQueue
    /\ ttsStale' = s.ttsStale
    /\ nextId' = s.nextId
    /\ accepted' = s.accepted
    /\ handed' = s.handed
    /\ bound' = s.bound

----------------------------------------------------------------------------
(* The text-to-speech engine (window.speechSynthesis) *)

\* speechSynthesis.cancel(): every utterance leaves the engine; the engine
\* still owes each of them its end/error event.
TtsCancel(s) ==
    [s EXCEPT !.ttsStale = @ \cup Range(s.ttsQueue), !.ttsQueue = <<>>]

\* speechSynthesis.speak(utter): the utterance joins the engine's queue.
TtsSpeak(s, id) == [s EXCEPT !.ttsQueue = Append(@, id)]

\* setTimeout(callback, delay)
\* (why is history: which code path registered the timer)
Timer(delay, kind, why, text, lang, prio) ==
    [rem |-> delay, kind |-> kind, why |-> why, text |-> text, lang |-> lang,
     prio |-> prio, rest |-> <<>>, hv |-> FALSE]
\* the callback is a closure of the render of the handler that sets the timer
SetTimeout(s, t) == [s EXCEPT !.timers = Append(@, [t EXCEPT !.hv = s.hv])]
DrainTimer(delay, why) == Timer(delay, "drain", why, NoText, "en", FALSE)

----------------------------------------------------------------------------
(* The announcement scheduler *)

\* utter.voice = lang is "hi" and has ? voiceHi.current : voiceEn.current,
\* with an English voice installed: "hi" the Hindi voice, "en" the English
\* one, "none" null (voiceHi.current is not set)
utterVoice(lang, has, hi) ==
    IF lang = "hi" /\ has THEN (IF hi THEN "hi" ELSE "none") ELSE "en"

\* history record of a hand-over: the voice of the utterance, whether a
\* Hindi voice was at hand (avail), and the hasHindiVoice of the closure
\* whose onend / onerror the utterance carries
Binding(s, next, has) ==
    [id |-> next.id, lang |-> next.lang,
     voice |-> utterVoice(next.lang, has, s.voiceHi),
     avail |-> s.voiceHi, hv |-> s.hv]

\* (a variant that takes the most recent item: pop() instead of shift())
processSpeechQueueLifo(s) ==
    IF s.isSpeaking THEN s
    ELSE IF s.speechQueue = <<>> THEN s
    ELSE LET next == s.speechQueue[Len(s.speechQueue)]
             s1 == [s EXCEPT !.speechQueue = SubSeq(@, 1, Len(@) - 1),
                             !.isSpeaking = TRUE,
                             !.lastSpokenText = next.text,
                             !.handed = Append(@, next.id),
                             !.bound = Append(@, Binding(s, next, s.hv))]
         IN  [TtsCancel(s1) EXCEPT !.ttsQueue = Append(@, next.id)]
\* processSpeechQueue of the OCR prototypes: hasHindiVoice is the state the
\* closure saw; cancel() right before speak().
processSpeechQueue(s) ==
    IF s.isSpeaking THEN s
    ELSE IF s.speechQueue = <<>> THEN s
    ELSE LET next == Head(s.speechQueue)
             s1 == [s EXCEPT !.speechQueue = Tail(@),
                             !.isSpeaking = TRUE,
                             !.lastSpokenText = next.text,
                             !.handed = Append(@, next.id),
                             !.bound = Append(@, Binding(s, next, s.hv))]
         IN  TtsSpeak(TtsCancel(s1), next.id)

\* processSpeechQueue of the object prototype: hasHindiVoice is a ref, read
\* when the utterance is made; speak() only.
processSpeechQueueObj(s) ==
    IF s.isSpeaking THEN s
    ELSE IF s.speechQueue = <<>> THEN s
    ELSE LET next == Head(s.speechQueue)
             s1 == [s EXCEPT !.speechQueue = Tail(@),
                             !.isSpeaking = TRUE,
                             !.lastSpokenText = next.text,
                             !.handed = Append(@, next.id),
                             !.bound = Append(@, Binding(s, next, s.hvRef))]
         IN  TtsSpeak(s1, next.id)

ProcessQueue(s) ==
    IF s.proto = "obj" THEN processSpeechQueueObj(s) ELSE processSpeechQueue(s)

\* (a variant that goes idle without setting the timer for the next drain)
utterOnEndNoDrain(s, u) == [s EXCEPT !.isSpeaking = FALSE]
\* utter.onend / utter.onerror of utterance u
utterOnEnd(s, u) ==
    SetTimeout([s EXCEPT !.isSpeaking = FALSE],
               DrainTimer(EndBackoff(s.proto), "end"))
\* (a variant that puts the failed utterance back at the front of the queue)
utterOnErrorRetry(s, u) ==
    SetTimeout([s EXCEPT !.isSpeaking = FALSE,
                         !.speechQueue =
                             <<[text |-> s.accepted[u].text,
                                lang |-> s.accepted[u].lang, id |-> u]>> \o @],
               DrainTimer(ErrorBackoff(s.proto), "error"))
utterOnError(s, u) ==
    SetTimeout([s EXCEPT !.isSpeaking = FALSE],
               DrainTimer(ErrorBackoff(s.proto), "error"))

\* history record of an accepted announcement: within = it came inside the
\* dedup / rate-limit window of the previous accepted one; for a priority
\* one, what it found speaking and pending
Meta(s, text, lang, priority) ==
    [text |-> text, lang |-> lang, prio |-> priority,
     within |-> s.elapsed < AgeCap(s.proto),
     wasSpeaking |-> priority /\ s.isSpeaking,
     preempted |-> IF priority /\ s.ttsQueue # <<>> THEN Head(s.ttsQueue) ELSE 0,
     pending |-> IF priority THEN Ids(s.speechQueue) ELSE {}]
Accept(s, text, lang, priority) ==
    [s EXCEPT !.accepted = Append(@, Meta(s, text, lang, priority)),
              !.nextId = @ + 1]

\* while (speechQueue.current.length > 6) speechQueue.current.shift()
RECURSIVE TrimQueue(_)
TrimQueue(q) == IF Len(q) > QUEUE_LIMIT THEN TrimQueue(Tail(q)) ELSE q

\* (a variant that pushes the priority item behind the pending ones)
PriorityReplaceKeep(s, item) ==
    [TtsCancel(s) EXCEPT !.speechQueue = Append(@, item), !.isSpeaking = FALSE]
\* The priority branch of enqueue: cancel, replace the queue, go idle.
PriorityReplace(s, item) ==
    [TtsCancel(s) EXCEPT !.speechQueue = <<item>>, !.isSpeaking = FALSE]

\* Does enqueue of the OCR prototypes return before changing anything?
Dropped(s, text, priority) ==
    \/ text = NoText
    \/ text = s.lastSpokenText /\ s.elapsed < DEDUP_WINDOW
    \/ ~priority /\ s.elapsed < MIN_ANNOUNCE_GAP

\* (a variant that stamps lastAnnounceTime before it tests the text)
enqueueStampFirst(s, text, lang, priority) ==
    IF Dropped(s, text, priority) THEN [s EXCEPT !.elapsed = 0]
    ELSE LET item == [text |-> text, lang |-> lang, id |-> s.nextId]
             s1 == [Accept(s, text, lang, priority) EXCEPT !.elapsed = 0]
         IN  IF priority
             THEN SetTimeout(PriorityReplace(s1, item),
                             DrainTimer(PriorityDrainDelay(s.proto), "prio"))
             ELSE SetTimeout(
                    [s1 EXCEPT !.speechQueue =
                                   Append(TrimQueue(s1.speechQueue), item)],
                    DrainTimer(DrainDelay(s.proto), "enq"))
\* enqueue of the OCR prototypes
enqueue(s, text, lang, priority) ==
    IF Dropped(s, text, priority) THEN s
    ELSE LET item == [text |-> text, lang |-> lang, id |-> s.nextId]
             s1 == [Accept(s, text, lang, priority) EXCEPT !.elapsed = 0]
         IN  IF priority
             THEN SetTimeout(PriorityReplace(s1, item),
                             DrainTimer(PriorityDrainDelay(s.proto), "prio"))
             ELSE SetTimeout(
                    [s1 EXCEPT !.speechQueue =
                                   Append(TrimQueue(s1.speechQueue), item)],
                    DrainTimer(DrainDelay(s.proto), "enq"))

\* Does enqueue of the object prototype return before changing anything?
DroppedObj(s, text, priority) ==
    \/ text = s.lastSpokenText
    \/ s.elapsed < MIN_ANNOUNCE_GAP

\* enqueue of the object prototype
enqueueObj(s, text, lang, priority) ==
    IF DroppedObj(s, text, priority) THEN s
    ELSE LET item == [text |-> text, lang |-> lang, id |-> s.nextId]
             s1 == Accept(s, text, lang, priority)
             s2 == IF priority
                   THEN SetTimeout(PriorityReplace(s1, item),
                                   DrainTimer(PriorityDrainDelay(s.proto), "prio"))
                   ELSE SetTimeout(
                          [s1 EXCEPT !.speechQueue = Append(@, item)],
                          DrainTimer(DrainDelay(s.proto), "enq"))
         IN  [s2 EXCEPT !.elapsed = 0]

Enqueue(s, text, lang, priority) ==
    IF s.proto = "obj" THEN enqueueObj(s, text, lang, priority)
    ELSE enqueue(s, text, lang, priority)

\* enqueueSpeakBoth of page.tsx: the English half goes through a timer.
enqueueSpeakBothPage(s, sel, en, hi, priority) ==
    IF sel = "en" THEN enqueue(s, en, "en", priority)
    ELSE IF sel = "hi"
         THEN enqueue(s, IF hi # NoText THEN hi ELSE en, "hi", priority)
    ELSE LET s1 == IF hi # NoText THEN enqueue(s, hi, "hi", priority) ELSE s
         IN  SetTimeout(s1, Timer(BothEnglishDelay, "enqueue", "bothEn", en, "en",
                               priority))

\* enqueueSpeakBoth of part_001: both halves at once.
enqueueSpeakBothOcr(s, sel, en, hi, priority) ==
    IF sel = "en" THEN enqueue(s, en, "en", priority)
    ELSE IF sel = "hi"
         THEN enqueue(s, IF hi # NoText THEN hi ELSE en, "hi", priority)
    ELSE LET s1 == IF hi # NoText THEN enqueue(s, hi, "hi", priority) ELSE s
         IN  enqueue(s1, en, "en", priority)

\* enqueueSpeakBoth of part_000: both halves at once, hi || en.
enqueueSpeakBothObj(s, sel, en, hi, priority) ==
    IF sel = "en" THEN enqueueObj(s, en, "en", priority)
    ELSE IF sel = "hi"
         THEN enqueueObj(s, IF hi # NoText THEN hi ELSE en, "hi", priority)
    ELSE LET s1 == enqueueObj(s, IF hi # NoText THEN hi ELSE en, "hi", priority)
         IN  enqueueObj(s1, en, "en", priority)

EnqueueSpeakBoth(s, sel, en, hi, priority) ==
    IF s.proto = "page" THEN enqueueSpeakBothPage(s, sel, en, hi, priority)
    ELSE IF s.proto = "ocr" THEN enqueueSpeakBothOcr(s, sel, en, hi, priority)
    ELSE enqueueSpeakBothObj(s, sel, en, hi, priority)

----------------------------------------------------------------------------
(* Reading a page aloud (OCR prototypes) *)

\* the characters \s matches: space and newline
WhiteSpace == {0, 9}

\* text.split(/\s+/): cut at every run of whitespace; a leading or trailing
\* run leaves an empty first or last word, and "" gives [""]
RECURSIVE SplitFrom(_, _, _, _, _)
SplitFrom(t, i, words, cur, inSpace) ==
    IF i > Len(t) THEN Append(words, cur)
    ELSE IF t[i] \in WhiteSpace
         THEN IF inSpace THEN SplitFrom(t, i + 1, words, cur, TRUE)
              ELSE SplitFrom(t, i + 1, Append(words, cur), <<>>, TRUE)
         ELSE SplitFrom(t, i + 1, words, Append(cur, t[i]), FALSE)
split(t) == SplitFrom(t, 1, <<>>, <<>>, FALSE)

\* text.trim()
RECURSIVE trim(_)
trim(t) ==
    IF t = <<>> THEN t
    ELSE IF Head(t) \in WhiteSpace THEN trim(Tail(t))
    ELSE IF t[Len(t)] \in WhiteSpace THEN trim(SubSeq(t, 1, Len(t) - 1))
    ELSE t

\* text.replace(/\s+/g, " ")
RECURSIVE CollapseFrom(_, _, _, _)
CollapseFrom(t, i, out, inSpace) ==
    IF i > Len(t) THEN out
    ELSE IF t[i] \in WhiteSpace
         THEN CollapseFrom(t, i + 1, IF inSpace THEN out ELSE Append(out, 0), TRUE)
         ELSE CollapseFrom(t, i + 1, Append(out, t[i]), FALSE)
collapse(t) == CollapseFrom(t, 1, <<>>, FALSE)

\* chunkText(text, maxWords)
RECURSIVE chunkLoop(_, _, _, _, _)
chunkLoop(words, k, chunks, currentChunk, maxWords) ==
    IF k > Len(words)
    THEN IF currentChunk # <<>> THEN Append(chunks, trim(currentChunk)) ELSE chunks
    ELSE IF Len(split(currentChunk)) + 1 > maxWords
         THEN chunkLoop(words, k + 1,
                        IF currentChunk # <<>>
                        THEN Append(chunks, trim(currentChunk)) ELSE chunks,
                        words[k] \o <<0>>, maxWords)
         ELSE chunkLoop(words, k + 1, chunks, currentChunk \o words[k] \o <<0>>,
                        maxWords)
chunkText(text, maxWords) == chunkLoop(split(text), 1, <<>>, <<>>, maxWords)

\* chunkText(text, 180) in speakFullText
CHUNK_WORDS == 180
\* setTimeout(() => speakChunks(lang, i + 1), 800)
ChunkCadence == 800
\* setTimeout(() => speakChunks("en"), 400) in page.tsx, 600 in part_001
FullTextEnglishDelay(p) == IF p = "page" THEN 400 ELSE 600

\* the timer that continues reading: rest = the chunks not yet enqueued
ChunkTimer(delay, lang, rest) ==
    [Timer(delay, "chunk", "chunk", NoText, lang, FALSE) EXCEPT !.rest = rest]

\* speakChunks(lang, i) with chunks = chunks[i..]: enqueue one chunk and set
\* the timer for the next
speakChunks(s, lang, chunks) ==
    IF chunks = <<>> THEN s
    ELSE SetTimeout(enqueue(s, Head(chunks), lang, FALSE),
                    ChunkTimer(ChunkCadence, lang, Tail(chunks)))

\* speakFullText(text) of a render whose selectedLanguage is sel
speakFullText(s, sel, text) ==
    IF Len(text) < 3 THEN s
    ELSE LET chunks == chunkText(text, CHUNK_WORDS)
         IN  IF sel = "en" THEN speakChunks(s, "en", chunks)
             ELSE IF sel = "hi" THEN speakChunks(s, "hi", chunks)
             ELSE SetTimeout(speakChunks(s, "hi", chunks),
                             ChunkTimer(FullTextEnglishDelay(s.proto), "en", chunks))

----------------------------------------------------------------------------
(* Inputs *)

Langs == {"en", "hi"}
Selections == {"en", "hi", "both"}
\* two English phrasings and their Hindi counterparts
CallTexts == {<<1>>, <<2>>}
HiOf(en) == <<en[1] + 10>>
\* the announcements handed to enqueue directly
CallInputs == {[text |-> <<1>>, lang |-> "en"], [text |-> <<2>>, lang |-> "hi"]}

----------------------------------------------------------------------------
(* Initial state: the component has just mounted *)

\* op: the kind of step; for an enqueue: its arguments, whether it was
\* accepted (ok, id), whether it came less than MIN_ANNOUNCE_GAP after the
\* last accepted one (early) and whether it came after every window the
\* prototype compares the clock with had elapsed (aged); for a drain: which
\* timer ran it (why), whether the scheduler was idle and which item was at
\* the front before it ran
NoOp == [op |-> "", why |-> "", text |-> NoText, prio |-> FALSE, ok |-> FALSE,
         id |-> 0, early |-> FALSE, aged |-> FALSE, idle |-> FALSE, front |-> 0]
NoBoth == [stage |-> "none", prio |-> FALSE, idle |-> FALSE, clean |-> FALSE,
           hiId |-> 0, enId |-> 0]

InitSched ==
    /\ speechQueue = <<>>
    /\ isSpeaking = FALSE
    /\ lastSpokenText = NoText
    /\ elapsed = AgeCap(proto)
    /\ timers = <<>>
    /\ ttsQueue = <<>>
    /\ ttsStale = {}
    /\ selectedLanguage = "en"
    /\ nextId = 1
    /\ accepted = <<>>
    /\ handed = <<>>
    /\ bound = <<>>
    /\ lastOp = NoOp
    /\ bothEvt = NoBoth

InitRest ==
    /\ model = FALSE
    /\ isStarted = FALSE
    /\ loops = <<>>
    /\ cycles = 0
    /\ obsWindow = <<>>
    /\ previousText = NoText
    /\ accumulatedText = NoText
    /\ scanCount = 0
    /\ isCameraActive = FALSE
    /\ isProcessing = FALSE
    /\ isBlindMode = FALSE
    /\ raf = <<>>
    /\ ocrCalls = <<>>
    /\ scanHist = <<>>
    /\ voiceHi = FALSE
    /\ hasHindiVoice = FALSE
    /\ frame = <<>>
    /\ otsuCalls = <<>>
    /\ medianCalls = <<>>
    /\ chunkCalls = <<>>

Init ==
    /\ proto \in Protos
    /\ InitSched
    /\ InitRest

----------------------------------------------------------------------------
(* Steps of the scheduler *)

\* announcements that pending timers may still bring in
PendingEnqueues == Cardinality({i \in DOMAIN timers : timers[i].kind = "enqueue"})
Room(n) == nextId + PendingEnqueues + n <= MaxUtter + 1

\* nothing queued, nothing spoken, no callback or timer outstanding
Quiet ==
    /\ speechQueue = <<>>
    /\ ~isSpeaking
    /\ ttsQueue = <<>>
    /\ ttsStale = {}
    /\ timers = <<>>

Interfere(b) == IF b.stage = "hiDone" THEN [b EXCEPT !.clean = FALSE] ELSE b

\* A direct call enqueue(text, lang, priority).
DoEnqueue(text, lang, priority) ==
    /\ LET s == Enqueue(Sched, text, lang, priority)
       IN  /\ SetSched(s)
           /\ lastOp' = [NoOp EXCEPT
                           !.op = "enqueue", !.text = text, !.prio = priority,
                           !.ok = s.nextId # nextId,
                           !.id = IF s.nextId # nextId THEN nextId ELSE 0,
                           !.early = elapsed < MIN_ANNOUNCE_GAP,
                           !.aged = elapsed >= AgeCap(proto)]
    /\ bothEvt' = Interfere(bothEvt)
    /\ UNCHANGED <<proto, voiceVars, imgVars, selectedLanguage, detVars, ocrVars>>

EnqueueCall(text, lang, priority) ==
    /\ Room(1)
    /\ DoEnqueue(text, lang, priority)

\* One more of a run of distinct non-priority announcements.
BurstText(n) == <<20 + n>>
BurstCall ==
    /\ nextId <= MaxBurst + 1
    /\ DoEnqueue(BurstText(nextId), "en", FALSE)

\* A call enqueueSpeakBoth(en, hi, priority) from a handler of the current render.
SpeakBothCall(en, hi, priority) ==
    /\ Room(2)
    /\ LET s == EnqueueSpeakBoth(Sched, selectedLanguage, en, hi, priority)
           hiText == IF hi # NoText THEN hi ELSE en
           hiCalled == hi # NoText \/ proto = "obj"
           hiOk == /\ hiCalled
                   /\ Len(s.accepted) > Len(accepted)
                   /\ s.accepted[nextId].lang = "hi"
           enOk == /\ proto # "page"
                   /\ Len(s.accepted) > Len(accepted)
                   /\ Last(s.accepted).lang = "en"
       IN  /\ SetSched(s)
           /\ lastOp' = [NoOp EXCEPT
                           !.op = "speakBoth", !.text = en, !.prio = priority,
                           !.ok = s.nextId # nextId,
                           !.early = elapsed < MIN_ANNOUNCE_GAP]
           /\ bothEvt' =
                IF selectedLanguage = "both"
                THEN [stage |-> IF proto = "page" THEN "hiDone" ELSE "done",
                      prio |-> priority,
                      idle |-> Quiet,
                      clean |-> PendingEnqueues = 0,
                      hiId |-> IF hiOk THEN nextId ELSE 0,
                      enId |-> IF enOk THEN s.nextId - 1 ELSE 0]
                ELSE Interfere(bothEvt)
    /\ UNCHANGED <<proto, voiceVars, imgVars, selectedLanguage, detVars, ocrVars>>

\* The detection effect of part_000 runs (its dependencies are model,
\* isStarted and selectedLanguage; it has no cleanup): with the model loaded
\* and the camera started, a new loop begins with detect(), which closes over
\* the language of this render and waits for model.detect.
detectEffect(ls, m, started, lang) ==
    IF m /\ started THEN Append(ls, [lang |-> lang, pc |-> "await"]) ELSE ls

\* The user picks a language.
SetLanguage(l) ==
    /\ l # selectedLanguage
    /\ proto = "obj" /\ model /\ isStarted => Len(loops) < MaxLoops
    /\ selectedLanguage' = l
    /\ loops' = IF proto = "obj" THEN detectEffect(loops, model, isStarted, l)
                 ELSE loops
    /\ lastOp' = NoOp
    /\ UNCHANGED <<proto, voiceVars, imgVars, schedVars, bothEvt, model, isStarted, obsWindow,
                   cycles, ocrVars>>

\* The timer that fires next: the earliest registered among those due.
Due(i) == /\ timers[i].rem = 0
          /\ \A j \in 1..(i - 1) : timers[j].rem # 0
RemoveAt(q, i) == SubSeq(q, 1, i - 1) \o SubSeq(q, i + 1, Len(q))

\* A setTimeout callback runs: processSpeechQueue, the delayed enqueue of
\* enqueueSpeakBoth, or the next step of speakChunks.
TimerFire ==
    \E i \in DOMAIN timers :
        /\ Due(i)
        /\ LET t == timers[i]
               s0 == [SchedOf(t.hv) EXCEPT !.timers = RemoveAt(timers, i)]
               s == IF t.kind = "drain" THEN ProcessQueue(s0)
                    ELSE IF t.kind = "chunk" THEN speakChunks(s0, t.lang, t.rest)
                    ELSE Enqueue(s0, t.text, t.lang, t.prio)
               spoke == Len(s.handed) > Len(handed)
               took == s.nextId # nextId
           IN  /\ SetSched(s)
               /\ lastOp' = [NoOp EXCEPT
                               !.op = t.kind, !.why = t.why, !.text = t.text,
                               !.prio = t.prio,
                               !.ok = IF t.kind = "drain" THEN spoke ELSE took,
                               !.id = IF t.kind = "drain"
                                      THEN (IF spoke THEN Last(s.handed) ELSE 0)
                                      ELSE (IF took THEN nextId ELSE 0),
                               !.early = elapsed < MIN_ANNOUNCE_GAP,
                               !.idle = ~isSpeaking,
                               !.front = IF speechQueue = <<>> THEN 0
                                         ELSE Head(speechQueue).id]
               /\ bothEvt' =
                    IF t.kind = "enqueue" /\ bothEvt.stage = "hiDone"
                    THEN [bothEvt EXCEPT !.stage = "done",
                                         !.enId = IF took THEN nextId ELSE 0]
                    ELSE bothEvt
        /\ UNCHANGED <<proto, voiceVars, imgVars, selectedLanguage, detVars, ocrVars>>

\* the hasHindiVoice seen by the closure that made utterance u, which is the
\* closure of its onend / onerror
ClosureOf(u) == bound[CHOOSE k \in DOMAIN bound : bound[k].id = u].hv

\* The engine finishes the utterance it is speaking: utter.onend runs.
TtsEnd ==
    /\ ttsQueue # <<>>
    /\ SetSched(utterOnEnd([SchedOf(ClosureOf(Head(ttsQueue)))
                                 EXCEPT !.ttsQueue = Tail(@)], Head(ttsQueue)))
    /\ lastOp' = [NoOp EXCEPT !.op = "onend", !.id = Head(ttsQueue)]
    /\ UNCHANGED <<proto, voiceVars, imgVars, selectedLanguage, bothEvt, detVars, ocrVars>>

\* The engine fails on the utterance it is speaking: utter.onerror runs.
TtsError ==
    /\ ttsQueue # <<>>
    /\ SetSched(utterOnError([SchedOf(ClosureOf(Head(ttsQueue)))
                                   EXCEPT !.ttsQueue = Tail(@)], Head(ttsQueue)))
    /\ lastOp' = [NoOp EXCEPT !.op = "onerror", !.id = Head(ttsQueue)]
    /\ UNCHANGED <<proto, voiceVars, imgVars, selectedLanguage, bothEvt, detVars, ocrVars>>

\* The engine delivers the event it owes a cancelled utterance.
TtsStaleEnd ==
    \E u \in ttsStale :
        /\ SetSched(utterOnEnd([SchedOf(ClosureOf(u)) EXCEPT !.ttsStale = @ \ {u}],
                                u))
        /\ lastOp' = [NoOp EXCEPT !.op = "onend", !.why = "cancelled", !.id = u]
        /\ UNCHANGED <<proto, voiceVars, imgVars, selectedLanguage, bothEvt, detVars, ocrVars>>

TtsStaleError ==
    \E u \in ttsStale :
        /\ SetSched(utterOnError([SchedOf(ClosureOf(u))
                                       EXCEPT !.ttsStale = @ \ {u}], u))
        /\ lastOp' = [NoOp EXCEPT !.op = "onerror", !.why = "cancelled", !.id = u]
        /\ UNCHANGED <<proto, voiceVars, imgVars, selectedLanguage, bothEvt, detVars, ocrVars>>

\* Time passes, up to the next timer or the next threshold of the clock.
Delays ==
    {timers[i].rem : i \in DOMAIN timers}
        \cup {MIN_ANNOUNCE_GAP - elapsed, AgeCap(proto) - elapsed}
Advance ==
    \E d \in Delays :
        /\ d > 0
        /\ \A i \in DOMAIN timers : timers[i].rem >= d
        /\ elapsed' = IF elapsed + d > AgeCap(proto) THEN AgeCap(proto)
                       ELSE elapsed + d
        /\ timers' = [i \in DOMAIN timers |-> [timers[i] EXCEPT !.rem = @ - d]]
        /\ lastOp' = NoOp
        /\ UNCHANGED <<proto, voiceVars, imgVars, speechQueue, isSpeaking, lastSpokenText, ttsQueue,
                       ttsStale, selectedLanguage, nextId, accepted, handed,
                       bound, bothEvt, detVars, ocrVars>>

\* what the scheduler, the timers and the engine do on their own
Engine ==
    \/ TimerFire
    \/ TtsEnd
    \/ TtsError
    \/ TtsStaleEnd
    \/ TtsStaleError
    \/ Advance

\* The scheduler under direct calls of enqueue.
Next ==
    \/ \E c \in CallInputs, p \in BOOLEAN : EnqueueCall(c.text, c.lang, p)
    \/ Engine

Spec == Init /\ [][Next]_vars

\* The scheduler under direct calls of enqueue with one text or with the
\* empty string.
DropTexts == {<<1>>, NoText}

NextDrop ==
    \/ \E t \in DropTexts, p \in BOOLEAN : EnqueueCall(t, "en", p)
    \/ Engine

SpecDrop == Init /\ [][NextDrop]_vars

\* The scheduler under enqueueSpeakBoth; the language selector is operated
\* between announcements.
NextBoth ==
    \/ \E t \in CallTexts, h \in BOOLEAN, p \in BOOLEAN :
           SpeakBothCall(t, IF h THEN HiOf(t) ELSE NoText, p)
    \/ \E l \in Selections : Quiet /\ SetLanguage(l)
    \/ Engine

SpecBoth == Init /\ [][NextBoth]_vars

\* The scheduler under a run of distinct non-priority announcements.
\* The utterances spoken during the run are long: only the first
\* MaxBurstDrains of them complete while the run lasts.
BurstEnd == Len(handed) <= MaxBurstDrains /\ TtsEnd
BurstError == Len(handed) <= MaxBurstDrains /\ TtsError

NextBurst ==
    \/ BurstCall
    \/ TimerFire
    \/ BurstEnd
    \/ BurstError
    \/ Advance

SpecBurst == Init /\ [][NextBurst]_vars

\* loadVoices (on mount and on voiceschanged): the refs are set from the
\* voice list, whose Hindi voice is there (hi) or not, and hasHindiVoice
\* follows; in the OCR prototypes that is a state update, seen by the
\* handlers of the next render.
loadVoices(hi) ==
    /\ hi # voiceHi
    /\ voiceHi' = hi
    /\ hasHindiVoice' = hi
    /\ lastOp' = [NoOp EXCEPT !.op = "voices", !.ok = hi]
    /\ UNCHANGED <<proto, schedVars, selectedLanguage, bothEvt, detVars, ocrVars,
                   imgVars>>

\* The scheduler while the voice list changes: direct calls of enqueue by
\* handlers of the current render.
VoiceCall(text, lang, priority) ==
    /\ nextId <= MaxVoiceUtter
    /\ DoEnqueue(text, lang, priority)

NextVoice ==
    \/ \E hi \in BOOLEAN : loadVoices(hi)
    \/ \E c \in CallInputs, p \in BOOLEAN : VoiceCall(c.text, c.lang, p)
    \/ Engine

SpecVoice == Init /\ [][NextVoice]_vars

\* The scheduler under direct calls of enqueue, with the event loop and the
\* speech engine doing their part: a due setTimeout callback runs, time
\* passes, and the engine delivers the end or error event of every
\* utterance it was given, cancelled ones included.
EngineFairness ==
    /\ WF_vars(TimerFire)
    /\ WF_vars(Advance)
    /\ WF_vars(TtsEnd \/ TtsError)
    /\ WF_vars(TtsStaleEnd \/ TtsStaleError)

\* The drain does not look at the text or the language of an announcement:
\* the announcements are in English and all different, with and without
\* priority.
NextDrain ==
    \/ \E p \in BOOLEAN : EnqueueCall(BurstText(nextId), "en", p)
    \/ Engine

SpecDrain == Init /\ [][NextDrain]_vars /\ EngineFairness

----------------------------------------------------------------------------
(* The object-detection prototype (part_000) *)

\* const CONFIDENCE_THRESHOLD = 0.45; scores are in hundredths
CONFIDENCE_THRESHOLD == 45

Labels == {"cat", "dog"}
Scores == {45, 90}
Detection == [class : Labels, score : Scores]
\* what model.detect may resolve with
Preds ==
    {<<>>} \cup {<<a>> : a \in Detection}
           \cup {<<a, b>> : a \in Detection, b \in Detection}

\* (a variant that takes the first detection without sorting)
BestUnsorted(preds) == preds[1]
\* preds.sort((a, b) => b.score - a.score)[0]: the sort is stable, so the
\* result is the first detection that no other one outscores
Best(preds) ==
    preds[CHOOSE i \in DOMAIN preds :
              /\ \A j \in DOMAIN preds : preds[j].score <= preds[i].score
              /\ \A j \in 1..(i - 1) : preds[j].score < preds[i].score]

\* translateToHindi(label): map[label] || label
HindiLabels == [cat |-> 51, dog |-> 52]
LabelCode(label) == IF label = "cat" THEN 1 ELSE 2
translateToHindi(label) ==
    IF label \in DOMAIN HindiLabels THEN HindiLabels[label] ELSE LabelCode(label)
\* `Near you is a ${label}.` and its Hindi counterpart
EnMsg(label) == <<31, LabelCode(label)>>
HiMsg(label) == <<41, translateToHindi(label)>>
\* "Camera activated. I will announce objects." and its Hindi counterpart
CameraActivatedEn == <<3>>
CameraActivatedHi == <<13>>

\* the last n elements of q
LastN(q, n) == IF Len(q) <= n THEN q ELSE SubSeq(q, Len(q) - n + 1, Len(q))

\* cocoSsd.load resolves: setModel(detectionModel).
ModelLoaded ==
    /\ proto = "obj"
    /\ ~model
    /\ model' = TRUE
    /\ loops' = detectEffect(loops, TRUE, isStarted, selectedLanguage)
    /\ lastOp' = NoOp
    /\ UNCHANGED <<proto, voiceVars, imgVars, schedVars, selectedLanguage, bothEvt, isStarted,
                   obsWindow, cycles, ocrVars>>

\* setupCamera with the camera granted: setIsStarted(true) and the
\* "Camera activated" announcement.
setupCamera ==
    /\ proto = "obj"
    /\ ~isStarted
    /\ LET s == enqueueSpeakBothObj(Sched, selectedLanguage, CameraActivatedEn,
                                    CameraActivatedHi, FALSE)
       IN  /\ SetSched(s)
           /\ lastOp' = [NoOp EXCEPT !.op = "camera", !.text = CameraActivatedEn,
                                     !.ok = s.nextId # nextId]
    /\ isStarted' = TRUE
    /\ loops' = detectEffect(loops, model, TRUE, selectedLanguage)
    /\ UNCHANGED <<proto, voiceVars, imgVars, selectedLanguage, bothEvt, model, obsWindow, cycles,
                   ocrVars>>

\* model.detect resolves in loop i: the rest of detect() runs.
DetectResolve(i, preds) ==
    /\ loops[i].pc = "await"
    /\ cycles < MaxCycles
    /\ nextId <= MaxDetectUtter
    /\ LET found == preds # <<>> /\ Best(preds).score > CONFIDENCE_THRESHOLD
           label == Best(preds).class
           s == IF found
                THEN enqueueSpeakBothObj(Sched, loops[i].lang, EnMsg(label),
                                         HiMsg(label), FALSE)
                ELSE Sched
       IN  /\ SetSched(s)
           /\ obsWindow' = LastN(Append(obsWindow,
                                        IF found THEN label ELSE "none"), W)
           /\ lastOp' = [NoOp EXCEPT
                           !.op = "detect", !.ok = found,
                           !.text = IF found THEN EnMsg(label) ELSE NoText,
                           !.id = s.nextId - nextId]
    /\ loops' = [loops EXCEPT ![i].pc = "frame"]
    /\ cycles' = cycles + 1
    /\ UNCHANGED <<proto, voiceVars, imgVars, selectedLanguage, bothEvt, model, isStarted, ocrVars>>

\* model.detect rejects in loop i: detect() ends with the exception, before
\* its requestAnimationFrame.
DetectReject(i) ==
    /\ loops[i].pc = "await"
    /\ loops' = [loops EXCEPT ![i].pc = "ended"]
    /\ lastOp' = [NoOp EXCEPT !.op = "detectFailed"]
    /\ UNCHANGED <<proto, voiceVars, imgVars, schedVars, selectedLanguage, bothEvt, model,
                   isStarted, obsWindow, cycles, ocrVars>>

\* The animation frame of loop i: detect() runs up to model.detect (the
\* video element is rendered from the first commit on, so videoRef.current
\* is set whenever detect() runs).
DetectFrame(i) ==
    /\ loops[i].pc = "frame"
    /\ loops' = [loops EXCEPT ![i].pc = "await"]
    /\ lastOp' = NoOp
    /\ UNCHANGED <<proto, voiceVars, imgVars, schedVars, selectedLanguage, bothEvt, model,
                   isStarted, obsWindow, cycles, ocrVars>>

\* The detection prototype; the language is chosen before the camera starts.
InitDetect ==
    /\ proto = "obj"
    /\ InitSched
    /\ InitRest

NextDetect ==
    \/ ModelLoaded
    \/ setupCamera
    \/ \E l \in Selections : ~isStarted /\ SetLanguage(l)
    \/ \E i \in DOMAIN loops, preds \in Preds : DetectResolve(i, preds)
    \/ \E i \in DOMAIN loops : DetectReject(i)
    \/ \E i \in DOMAIN loops : DetectFrame(i)
    \/ TimerFire
    \/ TtsEnd
    \/ TtsError
    \/ Advance

SpecDetect == InitDetect /\ [][NextDetect]_vars

\* The detection session by itself: the model, the camera, the language
\* selector (operated at any time) and the detection loops.  The loops write
\* to the scheduler and never read it, so its own steps (see Engine) are
\* left out here.
NextSession ==
    \/ ModelLoaded
    \/ setupCamera
    \/ \E l \in Selections : SetLanguage(l)
    \/ \E i \in DOMAIN loops, preds \in Preds : DetectResolve(i, preds)
    \/ \E i \in DOMAIN loops : DetectReject(i)
    \/ \E i \in DOMAIN loops : DetectFrame(i)

SpecSession == InitDetect /\ [][NextSession]_vars

\* The detection session with the language selector operated at any time
\* and the scheduler's own steps, so that the rate limit lets announcements
\* through as time passes; the detector always finds one object.
RelangPreds == {<<[class |-> "cat", score |-> 90]>>}

NextRelang ==
    \/ ModelLoaded
    \/ setupCamera
    \/ \E l \in Selections : SetLanguage(l)
    \/ \E i \in DOMAIN loops, preds \in RelangPreds : DetectResolve(i, preds)
    \/ \E i \in DOMAIN loops : DetectFrame(i)
    \/ TimerFire
    \/ TtsEnd
    \/ Advance

SpecRelang == InitDetect /\ [][NextRelang]_vars

----------------------------------------------------------------------------
(* The OCR prototypes (page.tsx, part_001): camera, scans, convergence *)

\* scanCountRef.current >= 3 && conf > 75
SCAN_THRESHOLD == 3
CONFIDENCE_GATE == 75
\* (a variant whose gate lets a confidence of exactly 75 through)
pageCompleteInclusive(count, conf) ==
    count >= SCAN_THRESHOLD /\ conf >= CONFIDENCE_GATE
pageComplete(count, conf) ==
    count >= SCAN_THRESHOLD /\ conf > CONFIDENCE_GATE

\* the announcements of the handlers, English and Hindi
CameraStartedEn == <<61>>
CameraStartedHi == <<71>>
BlindOnEn == <<62>>
BlindOnHi == <<72>>
BlindOffEn == <<63>>
BlindOffHi == <<73>>
FullPageEn == <<64>>
FullPageHi == <<74>>
NoTextEn == <<65>>
NoTextHi == <<75>>
ScanFailedEn == <<66>>
ScanFailedHi == <<76>>
StoppedEn == <<68>>
StoppedHi == <<78>>
\* `Scanning... (${scanCountRef.current}/3 stable, Conf: ${Math.round(conf)}%)`
ScanningMsg(count, conf) == <<67, count, conf>>
\* the OCR output that is treated like no text: "No text detected"
NoTextLiteral == <<8>>

\* speakStatus(msg) of part_001: the Hindi text comes from a table that has
\* no entry for the scanning message
StatusHindi(msg) ==
    IF msg = CameraStartedEn THEN CameraStartedHi
    ELSE IF msg = FullPageEn THEN FullPageHi
    ELSE IF msg = NoTextEn THEN NoTextHi
    ELSE NoText
speakStatus(s, sel, msg) == EnqueueSpeakBoth(s, sel, msg, StatusHindi(msg), TRUE)

\* what Tesseract.recognize may resolve with: text and confidence (percent)
OcrTexts ==
    { <<>>,
      <<1, 1, 0, 1, 2>>,
      <<9, 1, 1, 0, 0, 1, 1>>,
      <<1, 2, 0, 1, 1, 0, 2, 2>>,
      <<1, 1>>,
      NoTextLiteral }
OcrConfidences == {75, 80}

\* text.trim().replace(/\s+/g, " ")
cleanOcrText(text) == collapse(trim(text))

\* Is the text taken as new?  cleanText !== previousTextRef.current &&
\* cleanText.length > previousTextRef.current.length * 0.8
IsNewText(cleanText, previous) ==
    cleanText # previous /\ 10 * Len(cleanText) > 8 * Len(previous)

\* the cleanup of the effect on stream: cancelAnimationFrame and cancel()
streamCleanup(s) == TtsCancel(s)

\* resetting the scan state (captureAndRead, toggleBlindMode)
ResetScan ==
    /\ accumulatedText' = NoText
    /\ scanCount' = 0
    /\ previousText' = NoText
    /\ scanHist' = <<>>

\* (a variant without the test of the frame's size)
performOCRStartAnyFrame(valid, processing, lang, blind, hv) ==
    IF processing
    THEN UNCHANGED <<isProcessing, ocrCalls>>
    ELSE /\ isProcessing' = TRUE
         /\ ocrCalls' = Append(ocrCalls,
                               [lang |-> lang, blind |-> blind, hv |-> hv])
\* performOCR of a render whose isProcessing, selectedLanguage, isBlindMode
\* and hasHindiVoice are processing, lang, blind and hv, up to the await on
\* Tesseract.recognize; valid = video.videoWidth and video.videoHeight are
\* both non-zero
performOCRStart(valid, processing, lang, blind, hv) ==
    IF ~valid \/ processing
    THEN UNCHANGED <<isProcessing, ocrCalls>>
    ELSE /\ isProcessing' = TRUE
         /\ ocrCalls' = Append(ocrCalls,
                               [lang |-> lang, blind |-> blind, hv |-> hv])

\* startCamera with the camera granted (while fewer than maxUtter
\* announcements have been accepted).
startCameraUpTo(maxUtter) ==
    /\ proto \in OcrProtos
    /\ ~isCameraActive
    /\ nextId <= maxUtter
    /\ LET s == streamCleanup(EnqueueSpeakBoth(Sched, selectedLanguage,
                                                CameraStartedEn, CameraStartedHi,
                                                TRUE))
       IN  /\ SetSched(s)
           /\ lastOp' = [NoOp EXCEPT !.op = "camera", !.text = CameraStartedEn,
                                     !.ok = s.nextId # nextId]
    /\ isCameraActive' = TRUE
    /\ raf' = <<>>
    /\ UNCHANGED <<proto, voiceVars, imgVars, selectedLanguage, bothEvt, detVars, isProcessing,
                   isBlindMode, previousText, accumulatedText, scanCount,
                   ocrCalls, scanHist>>

startCamera == startCameraUpTo(MaxOcrUtter)

\* stopCamera (the Stop All button, enabled while the camera is active):
\* the state setters, cancelAnimationFrame, cancel(), the "Stopped."
\* announcement, and then the cleanup of the effect on stream.
stopCamera ==
    /\ proto \in OcrProtos
    /\ isCameraActive
    /\ nextId <= MaxOcrUtter
    /\ LET s == streamCleanup(EnqueueSpeakBoth(TtsCancel(Sched), selectedLanguage,
                                                StoppedEn, StoppedHi, TRUE))
       IN  /\ SetSched(s)
           /\ lastOp' = [NoOp EXCEPT !.op = "stop", !.text = StoppedEn,
                                     !.ok = s.nextId # nextId, !.id = nextId]
    /\ isCameraActive' = FALSE
    /\ isBlindMode' = FALSE
    /\ raf' = <<>>
    /\ UNCHANGED <<proto, voiceVars, imgVars, selectedLanguage, bothEvt, detVars, isProcessing,
                   previousText, accumulatedText, scanCount, ocrCalls, scanHist>>

\* captureAndRead (the Quick Scan button, enabled while the camera is active
\* and nothing is processing); valid = the video frame has a size (while
\* fewer than maxCalls recognize calls are in flight).
captureAndReadUpTo(valid, maxCalls) ==
    /\ proto \in OcrProtos
    /\ isCameraActive /\ ~isProcessing
    /\ Len(ocrCalls) < maxCalls
    /\ ResetScan
    /\ performOCRStart(valid, isProcessing, selectedLanguage, isBlindMode,
                       hasHindiVoice)
    /\ lastOp' = [NoOp EXCEPT !.op = "quickScan", !.ok = valid,
                              !.why = IF valid THEN "" ELSE "invalid"]
    /\ UNCHANGED <<proto, voiceVars, imgVars, schedVars, selectedLanguage, bothEvt, detVars,
                   isCameraActive, isBlindMode, raf>>

captureAndRead(valid) == captureAndReadUpTo(valid, MaxCalls)

\* toggleBlindMode (the button is enabled like Quick Scan).  Turning the mode
\* on resets the scan state and requests a frame for a loop that closes over
\* this render.
toggleBlindModeUpTo(maxUtter) ==
    /\ proto \in OcrProtos
    /\ isCameraActive /\ ~isProcessing
    /\ nextId <= maxUtter
    /\ isBlindMode' = ~isBlindMode
    /\ IF ~isBlindMode /\ isCameraActive
       THEN /\ ResetScan
            /\ raf' = <<[processing |-> isProcessing, lang |-> selectedLanguage,
                         blind |-> isBlindMode, hv |-> hasHindiVoice]>>
            /\ SetSched(EnqueueSpeakBoth(Sched, selectedLanguage, BlindOnEn,
                                         BlindOnHi, TRUE))
       ELSE /\ raf' = <<>>
            /\ SetSched(EnqueueSpeakBoth(Sched, selectedLanguage, BlindOffEn,
                                         BlindOffHi, TRUE))
            /\ UNCHANGED <<previousText, accumulatedText, scanCount, scanHist>>
    /\ lastOp' = [NoOp EXCEPT !.op = "toggle", !.ok = ~isBlindMode]
    /\ UNCHANGED <<proto, voiceVars, imgVars, selectedLanguage, bothEvt, detVars, isCameraActive,
                   isProcessing, ocrCalls>>

toggleBlindMode == toggleBlindModeUpTo(MaxOcrUtter)

\* The animation frame of the scan loop; late = the frame's timestamp is more
\* than 1000 ms after lastScan.  The loop requests its next frame only if the
\* isBlindMode it closed over is true.
ScanFrameUpTo(late, valid, maxCalls) ==
    /\ raf # <<>>
    /\ Len(ocrCalls) < maxCalls
    /\ LET r == Head(raf)
       IN  /\ IF late
              THEN performOCRStart(valid, r.processing, r.lang, r.blind, r.hv)
              ELSE UNCHANGED <<isProcessing, ocrCalls>>
           /\ raf' = IF r.blind THEN raf ELSE <<>>
    /\ lastOp' = [NoOp EXCEPT !.op = "frame", !.ok = late /\ valid,
                              !.why = IF late /\ ~valid THEN "invalid" ELSE ""]
    /\ UNCHANGED <<proto, voiceVars, imgVars, schedVars, selectedLanguage, bothEvt, detVars,
                   isCameraActive, isBlindMode, previousText, accumulatedText,
                   scanCount, scanHist>>

ScanFrame(late, valid) == ScanFrameUpTo(late, valid, MaxCalls)

\* Tesseract.recognize resolves for call i: the rest of performOCR runs, in
\* the render that started the call.
OcrResolveUpTo(i, text, conf, maxUtter) ==
    /\ Len(scanHist) < MaxPasses
    /\ nextId <= maxUtter
    /\ LET call == ocrCalls[i]
           sched == SchedOf(call.hv)
           cleanText == cleanOcrText(text)
           hasText == cleanText # NoText /\ cleanText # NoTextLiteral
           isNew == hasText /\ IsNewText(cleanText, previousText)
           accumulated == IF isNew THEN accumulatedText \o <<0>> \o cleanText
                          ELSE accumulatedText
           count == IF ~hasText THEN scanCount
                    ELSE IF isNew THEN 0 ELSE scanCount + 1
           complete == hasText /\ pageComplete(count, conf)
           s == IF ~hasText
                THEN EnqueueSpeakBoth(sched, call.lang, NoTextEn, NoTextHi, TRUE)
                ELSE IF complete
                THEN EnqueueSpeakBoth(speakFullText(sched, call.lang, accumulated),
                                      call.lang, FullPageEn, FullPageHi, TRUE)
                ELSE IF proto = "ocr"
                THEN speakStatus(sched, call.lang, ScanningMsg(count, conf))
                ELSE sched
       IN  /\ SetSched(s)
           /\ accumulatedText' = accumulated
           /\ previousText' = IF isNew THEN cleanText ELSE previousText
           /\ scanCount' = count
           /\ isBlindMode' = IF proto = "ocr" /\ complete /\ call.blind THEN FALSE
                             ELSE isBlindMode
           /\ scanHist' = Append(scanHist, [text |-> cleanText, conf |-> conf,
                                            count |-> count,
                                            complete |-> complete])
           /\ lastOp' = [NoOp EXCEPT !.op = "ocr", !.ok = complete,
                                     !.text = cleanText]
    /\ isProcessing' = FALSE
    /\ ocrCalls' = RemoveAt(ocrCalls, i)
    /\ UNCHANGED <<proto, voiceVars, imgVars, selectedLanguage, bothEvt, detVars, isCameraActive, raf>>

OcrResolve(i, text, conf) == OcrResolveUpTo(i, text, conf, MaxOcrUtter)

\* (a variant whose catch block clears the scan state)
catchScanStateReset == ResetScan
\* what the catch block of performOCR does to the scan state: nothing
catchScanState ==
    UNCHANGED <<previousText, accumulatedText, scanCount, scanHist>>

\* Tesseract.recognize rejects for call i: the catch and finally of performOCR.
OcrReject(i) ==
    /\ nextId <= MaxOcrUtter
    /\ SetSched(EnqueueSpeakBoth(SchedOf(ocrCalls[i].hv), ocrCalls[i].lang,
                                 ScanFailedEn, ScanFailedHi, TRUE))
    /\ catchScanState
    /\ isProcessing' = FALSE
    /\ ocrCalls' = RemoveAt(ocrCalls, i)
    /\ lastOp' = [NoOp EXCEPT !.op = "ocrFailed"]
    /\ UNCHANGED <<proto, voiceVars, imgVars, selectedLanguage, bothEvt, detVars, isCameraActive,
                   isBlindMode, raf>>

\* The OCR prototypes; the language is chosen before the camera starts.
\* The handlers of the camera and of the OCR passes write to the scheduler
\* and never read it, so its own steps (timers, engine callbacks, the clock:
\* see Engine) are left out here: the announcements stay where the handlers
\* put them.
InitOCR ==
    /\ proto \in OcrProtos
    /\ InitSched
    /\ InitRest

NextOCR ==
    \/ \E l \in Selections : ~isCameraActive /\ SetLanguage(l)
    \/ startCamera
    \/ stopCamera
    \/ \E valid \in BOOLEAN : captureAndRead(valid)
    \/ toggleBlindMode
    \/ \E late \in BOOLEAN, valid \in BOOLEAN : ScanFrame(late, valid)
    \/ \E i \in DOMAIN ocrCalls, text \in OcrTexts, conf \in OcrConfidences :
           OcrResolve(i, text, conf)
    \/ \E i \in DOMAIN ocrCalls : OcrReject(i)

SpecOCR == InitOCR /\ [][NextOCR]_vars

\* The way to "page complete": the scan state is reset by every Quick Scan
\* and every switch to blind mode, and the counter reaches SCAN_THRESHOLD only
\* when four passes complete after the last reset, so recognize calls have to
\* be in flight at once (up to four here, which lets five passes complete
\* after one reset).  The language stays "en", every frame has a size and is
\* late enough, and the OCR engine returns one text or none.
MaxGateCalls == 4
MaxGateUtter == 10
GateTexts == {<<1, 1>>, <<>>}

NextGate ==
    \/ startCameraUpTo(MaxGateUtter)
    \/ captureAndReadUpTo(TRUE, MaxGateCalls)
    \/ toggleBlindModeUpTo(MaxGateUtter)
    \/ ScanFrameUpTo(TRUE, TRUE, MaxGateCalls)
    \/ \E i \in DOMAIN ocrCalls, text \in GateTexts, conf \in OcrConfidences :
           OcrResolveUpTo(i, text, conf, MaxGateUtter)

InitGate == InitOCR /\ proto = "page"

SpecGate == InitGate /\ [][NextGate]_vars

\* Reading a page: the same way to "page complete", in both OCR prototypes
\* and every language, with a patient user and a slow OCR engine: a handler
\* runs only when the scheduler has settled (every announcement has been
\* spoken to its end, no timer is pending, the windows of the rate limit and
\* of the dedup rule have elapsed).  The OCR engine always returns the same
\* text with confidence 80, and the speech engine completes every utterance.
MaxReadUtter == 12
ReadText == <<1, 1>>
ReadConfidence == 80
Settled == Quiet /\ elapsed = AgeCap(proto)

NextRead ==
    \/ \E l \in Selections : Settled /\ ~isCameraActive /\ SetLanguage(l)
    \/ Settled /\ startCameraUpTo(MaxReadUtter)
    \/ Settled /\ captureAndReadUpTo(TRUE, MaxGateCalls)
    \/ Settled /\ toggleBlindModeUpTo(MaxReadUtter)
    \/ Settled /\ ScanFrameUpTo(TRUE, TRUE, MaxGateCalls)
    \/ \E i \in DOMAIN ocrCalls :
           Settled /\ OcrResolveUpTo(i, ReadText, ReadConfidence, MaxReadUtter)
    \/ TimerFire
    \/ TtsEnd
    \/ TtsStaleEnd
    \/ Advance

SpecRead == InitOCR /\ [][NextRead]_vars

----------------------------------------------------------------------------
(* Image preprocessing: Otsu threshold and binarization *)

GRAY_LEVELS == 256
WHITE == 255
BLACK == 0

\* Gray values the frames of the model are made of: both ends of the scale,
\* two neighbours, and one in the middle.
GrayValues == {0, 1, 128, 255}
Frames == UNION {[1..n -> GrayValues] : n \in 1..MaxPixels}

\* histogram[g] after the loop histogram[data[i]]++ over the red channel of
\* every pixel
histogram(data, g) == Cardinality({i \in DOMAIN data : data[i] = g})
Histogram(data) == [g \in 0..(GRAY_LEVELS - 1) |-> histogram(data, g)]

\* for (i = 0; i < 256; i++) sum += i * histogram[i], over the levels
\* lo .. hi - 1 (the range is halved to keep the evaluation shallow)
RECURSIVE WeightedSum(_, _, _)
WeightedSum(data, lo, hi) ==
    IF hi - lo = 1 THEN lo * histogram(data, lo)
    ELSE LET mid == (lo + hi) \div 2
         IN  WeightedSum(data, lo, mid) + WeightedSum(data, mid, hi)

\* between = wB * wF * (mB - mF)^2 with mB = sumB / wB and
\* mF = (sum - sumB) / wF, kept as the fraction num / den, den > 0.  The
\* source computes it in double precision; the comparison below is exact,
\* which is the same whenever the two quotients are integers, as they are
\* for a histogram of two gray values.
Between(wB, wF, sumB, sum) ==
    LET d == sumB * wF - (sum - sumB) * wB
    IN  [num |-> d * d, den |-> wB * wF]
Greater(x, y) == x.num * y.den > y.num * x.den

\* One iteration of the loop over t of calculateOtsuThreshold; v holds the
\* variables of the loop, and v.broken that the loop was left by break.
otsuStep(data, total, sum, v, t) ==
    LET wB == v.wB + histogram(data, t)
        wF == total - wB
        sumB == v.sumB + t * histogram(data, t)
        between == Between(wB, wF, sumB, sum)
    IN  IF v.broken THEN v
        ELSE IF wB = 0 THEN [v EXCEPT !.wB = wB]
        ELSE IF wF = 0 THEN [v EXCEPT !.wB = wB, !.broken = TRUE]
        ELSE IF Greater(between, v.max)
        THEN [v EXCEPT !.wB = wB, !.sumB = sumB, !.max = between,
                       !.threshold = t]
        ELSE [v EXCEPT !.wB = wB, !.sumB = sumB]

\* The iterations t = lo .. hi - 1 in order (the range is halved to keep
\* the evaluation shallow, and the state after the first half is bound
\* through a singleton set so that it is evaluated once); nothing runs after
\* a break.
RECURSIVE otsuLoop(_, _, _, _, _, _)
otsuLoop(data, total, sum, v, lo, hi) ==
    IF hi - lo = 1 THEN otsuStep(data, total, sum, v, lo)
    ELSE LET mid == (lo + hi) \div 2
         IN  CHOOSE last \in
                 {IF first.broken THEN first
                  ELSE otsuLoop(data, total, sum, first, mid, hi) :
                    first \in {otsuLoop(data, total, sum, v, lo, mid)}} : TRUE

\* calculateOtsuThreshold(data, width, height) with width * height = the
\* number of pixels of data, as preprocessImage calls it
calculateOtsuThreshold(data) ==
    LET v0 == [wB |-> 0, sumB |-> 0, max |-> [num |-> 0, den |-> 1],
               threshold |-> 0, broken |-> FALSE]
    IN  CHOOSE threshold \in
            {otsuLoop(data, Len(data), sum, v0, 0, GRAY_LEVELS).threshold :
                sum \in {WeightedSum(data, 0, GRAY_LEVELS)}} : TRUE

binarizeInclusive(pixel, threshold) ==
    IF pixel >= threshold THEN WHITE ELSE BLACK

\* pixel > threshold ? 255 : 0
binarize(pixel, threshold) ==
    IF pixel > threshold THEN WHITE ELSE BLACK

\* preprocessImage from the call of calculateOtsuThreshold on: the frame
\* (gray and median-filtered by then) is thresholded and binarized.
preprocessImage ==
    /\ Len(otsuCalls) < MaxOtsuCalls
    /\ \E threshold \in {calculateOtsuThreshold(frame)} :
         otsuCalls' = Append(otsuCalls,
             [data |-> frame, threshold |-> threshold,
              out |-> [i \in DOMAIN frame |-> binarize(frame[i], threshold)]])
    /\ lastOp' = [NoOp EXCEPT !.op = "preprocess"]
    /\ UNCHANGED <<proto, schedVars, voiceVars, selectedLanguage, bothEvt,
                   detVars, ocrVars, frame, medianCalls, chunkCalls>>

\* The video shows another picture by the time of the next scan.
NextFrame(data) ==
    /\ Len(otsuCalls) < MaxOtsuCalls
    /\ otsuCalls # <<>>
    /\ Last(otsuCalls).data = frame
    /\ data # frame
    /\ frame' = data
    /\ lastOp' = [NoOp EXCEPT !.op = "frame"]
    /\ UNCHANGED <<proto, schedVars, voiceVars, selectedLanguage, bothEvt,
                   detVars, ocrVars, otsuCalls, medianCalls, chunkCalls>>

InitOtsu ==
    /\ proto \in OcrProtos
    /\ InitSched
    /\ model = FALSE
    /\ isStarted = FALSE
    /\ loops = <<>>
    /\ cycles = 0
    /\ obsWindow = <<>>
    /\ previousText = NoText
    /\ accumulatedText = NoText
    /\ scanCount = 0
    /\ isCameraActive = TRUE
    /\ isProcessing = FALSE
    /\ isBlindMode = FALSE
    /\ raf = <<>>
    /\ ocrCalls = <<>>
    /\ scanHist = <<>>
    /\ voiceHi = FALSE
    /\ hasHindiVoice = FALSE
    /\ frame \in Frames
    /\ otsuCalls = <<>>
    /\ medianCalls = <<>>
    /\ chunkCalls = <<>>

NextOtsu ==
    \/ preprocessImage
    \/ \E data \in Frames : NextFrame(data)

SpecOtsu == InitOtsu /\ [][NextOtsu]_vars

\* The 3x3 median step of preprocessImage.  A picture is the red channel of
\* the canvas after the grayscale loop, row by row: the pixel (x, y) is
\* data[y * width + x + 1].
PictureValues == {0, 128, 255}
Pictures ==
    {[width |-> 3, height |-> 3, data |-> d] : d \in [1..9 -> PictureValues]}
      \cup {[width |-> 4, height |-> 3, data |-> d] : d \in [1..12 -> {BLACK, WHITE}]}

\* [...].sort((a, b) => a - b)[4] of nine numbers
Median9(ns) ==
    CHOOSE v \in Range(ns) :
        /\ Cardinality({k \in DOMAIN ns : ns[k] < v}) <= 4
        /\ Cardinality({k \in DOMAIN ns : ns[k] <= v}) >= 5

\* the nine samples medianFilter reads around (x, y): the row above, then
\* temp[idx - width * 4], temp[idx], temp[idx + width * 4], then the row below
neighbors(temp, width, x, y) ==
    LET At(xx, yy) == temp[yy * width + xx + 1]
    IN  << At(x - 1, y - 1), At(x, y - 1), At(x + 1, y - 1),
           At(x, y - 1), At(x, y), At(x, y + 1),
           At(x - 1, y + 1), At(x, y + 1), At(x + 1, y + 1) >>

\* medianFilter(): temp is a copy of the canvas; the medians go into data,
\* the buffer of the grayscale loop; putImageData(tempData) writes the copy
\* back to the canvas.
medianFilter(pic) ==
    LET temp == pic.data
        Interior(k) == LET x == (k - 1) % pic.width
                           y == (k - 1) \div pic.width
                       IN  x >= 1 /\ x < pic.width - 1 /\ y >= 1 /\ y < pic.height - 1
    IN  [data |-> [k \in DOMAIN temp |->
                     IF Interior(k)
                     THEN Median9(neighbors(temp, pic.width, (k - 1) % pic.width,
                                            (k - 1) \div pic.width))
                     ELSE pic.data[k]],
         canvas |-> temp]

\* preprocessImage from the end of the grayscale loop to the getImageData
\* that precedes calculateOtsuThreshold: the buffer that is thresholded and
\* binarized is read back from the canvas.  pic is the picture the grayscale
\* loop left.
preprocessMedian ==
    /\ proto \in OcrProtos
    /\ Len(medianCalls) < MaxMedianCalls
    /\ \E pic \in Pictures :
         medianCalls' = Append(medianCalls,
                               [gray |-> pic, data |-> medianFilter(pic).data,
                                binarized |-> medianFilter(pic).canvas])
    /\ lastOp' = [NoOp EXCEPT !.op = "median"]
    /\ UNCHANGED <<proto, schedVars, voiceVars, selectedLanguage, bothEvt,
                   detVars, ocrVars, frame, otsuCalls, chunkCalls>>

NextMedian == preprocessMedian

SpecMedian == InitOCR /\ [][NextMedian]_vars

----------------------------------------------------------------------------
(* chunkText on its own *)

\* The texts chunkText is called with: up to MaxChars characters, each a
\* space or one of two letters, so that words of one and two letters, runs
\* of spaces and leading and trailing spaces all occur.
MaxChars == 4
MaxChunkCalls == 1
ChunkChars == {0, 1, 2}
ChunkInputs == UNION {[1..n -> ChunkChars] : n \in 0..MaxChars}
\* the values of maxWords
ChunkSizes == {2, 3}

\* One call chunkText(text, maxWords).
chunkTextCall ==
    /\ proto \in OcrProtos
    /\ Len(chunkCalls) < MaxChunkCalls
    /\ \E text \in ChunkInputs, maxWords \in ChunkSizes :
         chunkCalls' = Append(chunkCalls,
                              [text |-> text, maxWords |-> maxWords,
                               chunks |-> chunkText(text, maxWords)])
    /\ lastOp' = [NoOp EXCEPT !.op = "chunk"]
    /\ UNCHANGED <<proto, schedVars, voiceVars, selectedLanguage, bothEvt,
                   detVars, ocrVars, frame, otsuCalls, medianCalls>>

NextChunk == chunkTextCall

SpecChunk == InitOCR /\ [][NextChunk]_vars

----------------------------------------------------------------------------
(* Properties of the scheduler, checked under Spec *)

Handed == Range(handed)

\* a processSpeechQueue call is on its way: a drain timer is pending, or the
\* engine still owes the end/error event whose handler sets one
DrainPending ==
    \/ \E i \in DOMAIN timers : timers[i].kind = "drain"
    \/ ttsQueue # <<>>
    \/ ttsStale # {}
NoRepeat(q) == \A i, j \in DOMAIN q : i # j => q[i] # q[j]

\* C1 -- Dedup law: when enqueue(T) is accepted and enqueue(T) is called
\* again within the dedup / rate-limit window, the two calls do not both
\* end up as utterances handed to the speech engine.
C1_DedupLaw ==
    \A j \in 2..Len(accepted) :
        (accepted[j].text = accepted[j - 1].text /\ accepted[j].within)
            => ~({j - 1, j} \subseteq Handed)

\* C2 -- Priority preemption: a priority enqueue accepted while an utterance
\* is speaking leaves the engine cancelled and the queue holding the priority
\* item alone; the utterance it interrupted is out of the engine and the
\* items it found pending are out of the queue from then on; and the queue
\* is empty right after the priority item has been dequeued for speaking.
C2_PriorityPreemption ==
    /\ (lastOp.op = "enqueue" /\ lastOp.ok /\ lastOp.prio
            /\ accepted[lastOp.id].wasSpeaking)
         => /\ ttsQueue = <<>>
            /\ ~isSpeaking
            /\ Ids(speechQueue) = {lastOp.id}
    /\ \A p \in DOMAIN accepted :
         accepted[p].wasSpeaking
            => /\ accepted[p].preempted \notin Range(ttsQueue)
               /\ accepted[p].pending \cap Ids(speechQueue) = {}
               /\ \A k \in DOMAIN handed :
                    handed[k] \in accepted[p].pending
                        => \A m \in DOMAIN handed : handed[m] = p => k < m
    /\ (lastOp.op = "drain" /\ lastOp.ok /\ accepted[lastOp.id].wasSpeaking)
         => speechQueue = <<>>

\* a priority item that interrupted an utterance and displaced a pending
\* item has just been dequeued for speaking
C2_Witness ==
    /\ lastOp.op = "drain"
    /\ lastOp.ok
    /\ accepted[lastOp.id].wasSpeaking
    /\ accepted[lastOp.id].preempted # 0
    /\ accepted[lastOp.id].pending # {}

\* C5 -- Rate limit: a non-priority enqueue that comes less than
\* MIN_ANNOUNCE_GAP after the last accepted announcement is dropped, and a
\* priority enqueue whose text differs from the last spoken text is accepted
\* however recently the last announcement was accepted.
C5_RateLimit ==
    lastOp.op = "enqueue"
        => /\ (~lastOp.prio /\ lastOp.early) => ~lastOp.ok
           /\ (lastOp.prio /\ lastOp.text # lastSpokenText) => lastOp.ok

\* a later priority announcement was accepted after announcement p
Superseded(p) == \E q \in DOMAIN accepted : q > p /\ accepted[q].prio

\* C12 -- Priority is never starved: a priority enqueue with a non-empty
\* text other than the last spoken one is accepted however recently the
\* last announcement was accepted, and from then on it is pending with a
\* drain on its way or has been handed to the engine, unless a later
\* priority enqueue superseded it.
C12_PriorityNotStarved ==
    /\ (lastOp.op = "enqueue" /\ lastOp.prio /\ lastOp.text # NoText
            /\ lastOp.text # lastSpokenText)
         => lastOp.ok
    /\ \A p \in DOMAIN accepted :
         accepted[p].prio
            => \/ p \in Handed
               \/ p \in Ids(speechQueue) /\ DrainPending
               \/ Superseded(p)

\* C18 -- Dedup applies only inside its window: an enqueue of the text that
\* was spoken last, made after the dedup window and the rate-limit gap have
\* elapsed since the last accepted announcement, is accepted.
C18_DedupWindow ==
    (lastOp.op = "enqueue" /\ lastOp.text # NoText
        /\ lastOp.text = lastSpokenText /\ lastOp.aged)
      => lastOp.ok

\* C19 -- Hindi voice fallback: every utterance handed to the engine has a
\* voice; a "hi" announcement has the Hindi voice if one was at hand when it
\* was handed over and the English voice otherwise, and an "en" announcement
\* has the English voice.
C19_VoiceFallback ==
    /\ Len(bound) = Len(handed)
    /\ \A k \in DOMAIN bound :
         /\ bound[k].id = handed[k]
         /\ bound[k].voice =
                IF bound[k].lang = "hi" /\ bound[k].avail THEN "hi" ELSE "en"

\* the ids of the pending announcements, in queue order
QueueIds == [k \in DOMAIN speechQueue |-> speechQueue[k].id]
NoPriority == \A k \in DOMAIN accepted : ~accepted[k].prio

\* C21 -- FIFO drain: the announcements are handed to the engine in the order
\* in which they were accepted and none is handed over twice; with no
\* priority announcement and no more announcements than the queue holds
\* without eviction, the ones handed over followed by the pending ones are
\* all the accepted ones in their order; and an utterance is handed over
\* exactly in the steps that take the scheduler from idle to speaking.
C21_FifoDrain ==
    /\ [](\A i, j \in DOMAIN handed : i < j => handed[i] < handed[j])
    /\ []((NoPriority /\ Len(accepted) <= QUEUE_LIMIT)
            => handed \o QueueIds = [k \in DOMAIN accepted |-> k])
    /\ [][Len(handed') =
            IF ~isSpeaking /\ isSpeaking' THEN Len(handed) + 1
            ELSE Len(handed)]_vars

\* the second of three announcements without priority has just been handed
\* over while the third one is pending
C21_Witness ==
    /\ NoPriority
    /\ lastOp.op = "drain"
    /\ lastOp.ok
    /\ handed = <<1, 2>>
    /\ QueueIds = <<3>>

\* C6 -- Single utterance at a time: the speech engine never holds more than
\* one utterance of the scheduler.
C6_SingleUtterance == Len(ttsQueue) <= 1

\* C7 -- No dangling completion callback: the speaking flag is set exactly
\* when the most recently handed utterance is still active in the engine.
C7_NoDanglingCallback ==
    isSpeaking <=> (handed # <<>> /\ Last(handed) \in Range(ttsQueue))

\* C10 -- TTS error handling: an utterance is handed to the engine once and
\* is never in the queue afterwards; after onerror the scheduler is idle with
\* the backoff timer pending; and when that timer runs on an idle scheduler
\* with a non-empty queue, the front item is the one handed to the engine.
C10_TtsError ==
    /\ NoRepeat(handed)
    /\ Handed \cap Ids(speechQueue) = {}
    /\ lastOp.op = "onerror"
         => /\ ~isSpeaking
            /\ lastOp.id \notin Range(ttsQueue)
            /\ \E i \in DOMAIN timers :
                 /\ timers[i].kind = "drain"
                 /\ timers[i].why = "error"
                 /\ timers[i].rem = ErrorBackoff(proto)
    /\ (lastOp.op = "drain" /\ lastOp.why = "error")
         => /\ speechQueue = <<>> \/ isSpeaking
            /\ (lastOp.idle /\ lastOp.front # 0)
                 => /\ lastOp.ok
                    /\ Last(handed) = lastOp.front
                    /\ Last(ttsQueue) = lastOp.front

\* the backoff timer of a failed utterance has just handed over the next item
C10_Witness ==
    /\ lastOp.op = "drain"
    /\ lastOp.why = "error"
    /\ lastOp.ok
    /\ Len(handed) >= 2

----------------------------------------------------------------------------
(* Progress of the drain, checked under SpecDrain *)

\* C11 -- Drain progress: with the engine delivering an end or error event
\* for every utterance it is given, a non-empty queue or a set speaking flag
\* always has a drain timer or an engine callback pending; in a step that
\* accepts no enqueue an announcement leaves the queue only by being handed
\* to the engine; and once the enqueues have ceased the scheduler ends up,
\* and stays, idle with an empty queue.
C11_DrainProgress ==
    /\ []((speechQueue # <<>> \/ isSpeaking) => DrainPending)
    /\ [][nextId' = nextId
             => (Ids(speechQueue) \ Ids(speechQueue')) \subseteq Range(handed')]_vars
    /\ <>[](speechQueue = <<>> /\ ~isSpeaking)

\* every accepted announcement has been handed over and the scheduler is at
\* rest, after a priority announcement displaced nothing
C11_Witness ==
    /\ nextId = MaxUtter + 1
    /\ Len(handed) = MaxUtter
    /\ Quiet

----------------------------------------------------------------------------
(* Properties of the bounded queue, checked under SpecBurst *)

\* the announcements accepted after every one that has been dequeued
Undrained == {i \in DOMAIN accepted : \A h \in Handed : i > h}
\* the capacity: the queue is cut to QUEUE_LIMIT items before each push
Capacity == QUEUE_LIMIT + 1

\* C4 -- Bounded queue: once Capacity + 5 or more distinct non-priority
\* announcements have been accepted with none of them dequeued, exactly
\* Capacity items are pending, and they are the most recently accepted ones
\* in the order of their enqueue.
C4_BoundedQueue ==
    Cardinality(Undrained) >= Capacity + 5
        => /\ Len(speechQueue) = Capacity
           /\ \A k \in 1..Len(speechQueue) :
                speechQueue[k].id = nextId - 1 - Len(speechQueue) + k

\* the pending announcements that a step removes without handing them over
Evicted == (Ids(speechQueue) \ Ids(speechQueue')) \ Range(handed')

\* C22 -- Queue capacity: the queue never holds more than QUEUE_LIMIT items,
\* and what an accepted non-priority enqueue removes from the queue is older
\* than everything it leaves there.
C22_QueueCapacity ==
    /\ [](Len(speechQueue) <= QUEUE_LIMIT)
    /\ [][(lastOp'.op = "enqueue" /\ lastOp'.ok /\ ~lastOp'.prio)
            => \A e \in Evicted :
                 \A r \in Ids(speechQueue) \cap Ids(speechQueue') : e < r]_vars

----------------------------------------------------------------------------
(* Properties of the detection loop, checked under SpecDetect *)

Count(x, q) == Cardinality({i \in DOMAIN q : q[i] = x})
CeilHalf(n) == (n + 1) \div 2
\* the cycle that just completed produced an event (called enqueueSpeakBoth)
Announced == lastOp.op = "detect" /\ lastOp.ok

\* C8 -- Majority stability: a detection cycle announces a label only if the
\* label occurs in at least ceil(W/2) of the W most recent observations; with
\* W = 4, the observations cat, cat, dog, cat announce "cat" and the
\* observations cat, dog, cat, dog announce nothing on the last cycle.
C8_MajorityStability ==
    /\ Announced => Count(Last(obsWindow), obsWindow) >= CeilHalf(W)
    /\ lastOp.op = "detect" /\ obsWindow = MajorityYes => Announced
    /\ lastOp.op = "detect" /\ obsWindow = MajorityNo => ~Announced

----------------------------------------------------------------------------
(* Properties of the perception cycles, checked under SpecSession *)

\* calls of model.detect and of Tesseract.recognize that have not returned
InFlight ==
    Cardinality({i \in DOMAIN loops : loops[i].pc = "await"}) + Len(ocrCalls)

\* C13 -- No overlapping perception cycles: at most one call to the
\* detector or to the OCR engine is in flight.
C13_NoOverlap == InFlight <= 1

\* C16 -- Failures are not fatal to the session: while the session is
\* started every detection loop is waiting for the detector or has requested
\* its next frame; a cycle whose model.detect call rejected has not ended
\* its loop.
C16_FailureNotFatal ==
    isStarted => \A i \in DOMAIN loops : loops[i].pc \in {"await", "frame"}

----------------------------------------------------------------------------
(* Properties of the OCR convergence, checked under SpecOCR *)

\* text b differs from text a and is less than 20% longer
NearIdentical(a, b) ==
    b # a /\ Len(b) >= Len(a) /\ 5 * (Len(b) - Len(a)) < Len(a)
\* text b differs from text a and is at least 20% longer
MateriallyLonger(a, b) == b # a /\ 5 * (Len(b) - Len(a)) >= Len(a)
\* the first three passes since the reset returned near-identical texts with
\* confidence 80
ThreeNearIdentical ==
    /\ Len(scanHist) >= 3
    /\ \A k \in 1..3 : scanHist[k].text # NoText /\ scanHist[k].conf = 80
    /\ NearIdentical(scanHist[1].text, scanHist[2].text)
    /\ NearIdentical(scanHist[2].text, scanHist[3].text)

\* C9 -- OCR convergence: from a reset scan state, three consecutive passes
\* that return near-identical text (each differing from the previous one,
\* growing by less than 20%) with confidence 80 fire "page complete" on the
\* third pass, and a following pass with a materially longer, different text
\* resets the convergence counter to 0.
C9_OcrConvergence ==
    /\ ThreeNearIdentical => scanHist[3].complete
    /\ ( /\ ThreeNearIdentical
         /\ lastOp.op = "ocr"
         /\ Len(scanHist) = 4
         /\ MateriallyLonger(scanHist[3].text, scanHist[4].text) )
           => scanCount = 0

\* C23 -- Convergence counter update: a pass whose text is not empty and
\* that differs from the previous text and is longer than 80% of it appends
\* the text to the accumulated text, makes it the previous text and sets the
\* counter to 0; any other pass with a non-empty text adds 1 to the counter
\* and leaves the other two; a pass with an empty text leaves all three.
C23_CounterUpdate ==
    [][lastOp'.op = "ocr"
          => LET text == lastOp'.text
             IN  <<accumulatedText', previousText', scanCount'>> =
                   IF text = NoText
                   THEN <<accumulatedText, previousText, scanCount>>
                   ELSE IF text # previousText
                           /\ 10 * Len(text) > 8 * Len(previousText)
                   THEN <<accumulatedText \o <<0>> \o text, text, 0>>
                   ELSE <<accumulatedText, previousText, scanCount + 1>>]_vars

\* the announcements accepted in the step
NewlyAccepted == {accepted'[k].text : k \in (Len(accepted) + 1)..Len(accepted')}

C24_WitnessAtGate ==
    /\ lastOp.op = "ocr" /\ ~lastOp.ok /\ lastOp.text # NoText
    /\ scanCount = 3 /\ scanHist[Len(scanHist)].conf = 75

\* C25 -- Perception loop keeps running: while blind mode is on and the
\* camera is active, after every frame of the scan loop another frame is
\* scheduled (so that another OCR pass is started at the scan cadence), until
\* blind mode is turned off or the camera is stopped.
C25_LoopKeepsRunning ==
    [][(lastOp'.op = "frame" /\ isBlindMode' /\ isCameraActive')
          => raf' # <<>>]_vars

\* the detections of preds that no other detection outscores
TopScored(preds) ==
    {j \in DOMAIN preds : \A k \in DOMAIN preds : preds[k].score <= preds[j].score}

\* C26 -- Detection gate: a detection cycle produces at most one event (one
\* message, in each selected language); it produces one if and only if the
\* detection with the maximum score has a score strictly greater than 0.45,
\* and the message names the label of that detection; with no detections or
\* a best score of at most 0.45 nothing is enqueued.
C26_DetectionGate ==
    [][\A i \in DOMAIN loops, preds \in Preds :
          DetectResolve(i, preds)
             => IF \E j \in TopScored(preds) : preds[j].score > 45
                THEN \E j \in TopScored(preds) :
                        /\ lastOp'.ok /\ lastOp'.text = EnMsg(preds[j].class)
                        /\ Last(obsWindow') = preds[j].class
                        /\ NewlyAccepted \subseteq {EnMsg(preds[j].class),
                                                    HiMsg(preds[j].class)}
                        /\ Len(accepted') - Len(accepted)
                              <= IF loops[i].lang = "both" THEN 2 ELSE 1
                ELSE /\ ~lastOp'.ok /\ Last(obsWindow') = "none"
                     /\ accepted' = accepted
                     /\ speechQueue' = speechQueue]_vars

\* a cycle announced the dog although a cat came first in the result
C26_Witness ==
    /\ lastOp.op = "detect" /\ lastOp.ok /\ lastOp.id = 1
    /\ obsWindow = <<"none", "cat", "dog">>
    /\ accepted # <<>> /\ accepted[Len(accepted)].text = EnMsg("dog")

\* the median of the 3x3 neighbourhood of pixel (x, y) of a picture
TrueMedian(pic, x, y) ==
    Median9([n \in 1..9 |-> pic.data[(y - 1 + ((n - 1) \div 3)) * pic.width
                                       + (x - 1 + ((n - 1) % 3)) + 1]])

\* C27 -- Median filter: the image that is binarized has, at every interior
\* pixel, the median of the 9 gray values of the pixel's 3x3 neighbourhood in
\* the pre-filter grayscale buffer, and every border pixel keeps its
\* pre-filter gray value.
C27_MedianFilter ==
    \A c \in Range(medianCalls) :
       \A k \in DOMAIN c.gray.data :
          LET x == (k - 1) % c.gray.width
              y == (k - 1) \div c.gray.width
          IN  c.binarized[k] =
                 IF /\ 1 <= x /\ x <= c.gray.width - 2
                    /\ 1 <= y /\ y <= c.gray.height - 2
                 THEN TrueMedian(c.gray, x, y)
                 ELSE c.gray.data[k]

\* the languages of the announcements accepted in the step, in order
NewLangs ==
    [k \in 1..(Len(accepted') - Len(accepted)) |-> accepted'[Len(accepted) + k].lang]

\* C28 -- Language selection is honoured by every enqueue: the announcements
\* an event is turned into have the languages of the selection at that
\* moment ("en": one English announcement; "hi": one Hindi announcement;
\* "both": Hindi, then English), also in cycles of loops that were started
\* before the latest change of the selection.
C28_LanguageHonoured ==
    [][(NewLangs \in IF selectedLanguage = "en" THEN {<<>>, <<"en">>}
                     ELSE IF selectedLanguage = "hi" THEN {<<>>, <<"hi">>}
                     ELSE {<<>>, <<"hi">>, <<"en">>, <<"hi", "en">>})]_vars

\* the announcements of "page complete" accepted so far
FullPageIds ==
    {k \in DOMAIN accepted : accepted[k].text \in {FullPageEn, FullPageHi}}
\* the texts handed to the engine in language lang, in order (NoText in the
\* place of those in another language)
HandedTexts(lang) ==
    [k \in DOMAIN handed |-> IF accepted[handed[k]].lang = lang
                             THEN accepted[handed[k]].text ELSE NoText]
\* chunks occurs in texts, in order
InOrder(chunks, texts) ==
    \E pos \in [DOMAIN chunks -> DOMAIN texts] :
        /\ \A i, j \in DOMAIN chunks : i < j => pos[i] < pos[j]
        /\ \A i \in DOMAIN chunks : texts[pos[i]] = chunks[i]

\* C30 -- Full page is read completely: once the (first) page-complete event
\* has fired and, with no further action of the user and every utterance
\* completed by the engine, the scheduler has settled, every chunk of the
\* accumulated text has been handed to the engine, in order, in each
\* selected language: none was dropped by the rate limit, the dedup rule or
\* the "Full page detected" announcement.
C30_FullPageRead ==
    (/\ scanHist # <<>> /\ Last(scanHist).complete
     /\ Cardinality(FullPageIds) <= (IF selectedLanguage = "both" THEN 2 ELSE 1)
     /\ Settled)
       => \A lang \in (IF selectedLanguage = "both" THEN Langs
                       ELSE {selectedLanguage}) :
             InOrder(chunkText(accumulatedText, CHUNK_WORDS), HandedTexts(lang))

\* C31 -- Page complete fires once per converged page: between two passes
\* that fire "page complete" with no Quick Scan and no restart of blind mode
\* in between, some pass reset the counter to 0 (a materially different
\* text), so that the counter had to reach the threshold again.
C31_FiresOnce ==
    \A k, m \in DOMAIN scanHist :
       (k < m /\ scanHist[k].complete /\ scanHist[m].complete)
          => \E j \in (k + 1)..(m - 1) : scanHist[j].count = 0

\* C32 -- Nothing ambient is spoken after stop: from stopCamera on, while the
\* camera stays off, every announcement that enqueue accepts and every
\* utterance handed to the speech engine is the "Stopped." announcement (in
\* either language).
StoppedTexts == {StoppedEn, StoppedHi}
HasStopped ==
    /\ ~isCameraActive
    /\ \E k \in DOMAIN accepted : accepted[k].text \in StoppedTexts
C32_SilentAfterStop ==
    [][(HasStopped /\ ~isCameraActive') =>
          /\ \A k \in (Len(accepted) + 1)..Len(accepted') :
                 accepted'[k].text \in StoppedTexts
          /\ \A k \in (Len(handed) + 1)..Len(handed') :
                 accepted'[handed'[k]].text \in StoppedTexts]_vars

\* C33 -- A dropped enqueue has no effect: an enqueue call that the code
\* rejects (empty text, dedup rule, rate limit) leaves the pending queue, the
\* speaking flag, the last-spoken text and the time since the last
\* announcement as they were, sets no timer and makes no call to the speech
\* engine.
Rejected(text, priority) ==
    IF proto = "obj" THEN DroppedObj(Sched, text, priority)
    ELSE Dropped(Sched, text, priority)
C33_DroppedNoEffect ==
    [][(lastOp'.op = "enqueue" /\ Rejected(lastOp'.text, lastOp'.prio))
          => UNCHANGED <<speechQueue, isSpeaking, lastSpokenText, elapsed,
                         timers, ttsQueue, ttsStale, handed, accepted>>]_vars
\* an empty priority announcement was rejected while an utterance was being
\* spoken and another announcement was waiting for its drain
C33_Witness ==
    /\ proto \in OcrProtos
    /\ lastOp.op = "enqueue" /\ lastOp.text = NoText /\ lastOp.prio /\ ~lastOp.ok
    /\ ttsQueue # <<>> /\ speechQueue # <<>> /\ timers # <<>>

\* the whitespace-separated words of a text, in order
WordsOf(t) == SelectSeq(split(t), LAMBDA w : w # <<>>)
RECURSIVE WordsOfAll(_)
WordsOfAll(chunks) ==
    IF chunks = <<>> THEN <<>>
    ELSE WordsOf(Head(chunks)) \o WordsOfAll(Tail(chunks))
WordsKept(c) == WordsOfAll(c.chunks) = WordsOf(c.text)
NoEmptyChunk(c) == \A k \in DOMAIN c.chunks : c.chunks[k] # <<>>
ChunksFit(c) ==
    \A k \in DOMAIN c.chunks : Len(WordsOf(c.chunks[k])) <= c.maxWords

\* C34 -- chunkText preserves the text: for every text and maxWords >= 2, the
\* words of the chunks, taken in order, are the whitespace-separated words of
\* the text, no chunk is empty, and no chunk has more than maxWords words.
C34_ChunkTextPreserves ==
    \A c \in Range(chunkCalls) :
        WordsKept(c) /\ NoEmptyChunk(c) /\ ChunksFit(c)

\* C15 -- Collaborator failure is a dropped sample: the pass whose
\* Tesseract.recognize call rejects announces no "page complete" and leaves
\* the previous text, the accumulated text and the stable-scan counter as
\* they were.
C15_DroppedSample ==
    [][lastOp'.op = "ocrFailed"
          => /\ previousText' = previousText
             /\ accumulatedText' = accumulatedText
             /\ scanCount' = scanCount
             /\ NewlyAccepted \cap {FullPageEn, FullPageHi} = {}
             /\ NewlyAccepted \subseteq {ScanFailedEn, ScanFailedHi}]_vars

\* a pass has just failed while text of an earlier pass was accumulated
C15_Witness ==
    /\ lastOp.op = "ocrFailed"
    /\ previousText # NoText
    /\ accumulatedText # NoText

\* C17 -- Invalid frame: a pass on a frame of zero width or height enqueues
\* no announcement, does not call the OCR engine and leaves the processing
\* flag and the convergence state as they were when performOCR was entered
\* (in captureAndRead: just reset; in the scan loop: as before the frame);
\* and a pass on a valid frame, also right after an aborted one, calls the
\* OCR engine and sets the processing flag.
C17_InvalidFrame ==
    [][/\ lastOp'.why = "invalid"
          => /\ <<speechQueue, timers, nextId, accepted>>' =
                    <<speechQueue, timers, nextId, accepted>>
             /\ ocrCalls' = ocrCalls
             /\ isProcessing' = isProcessing
             /\ <<previousText, accumulatedText, scanCount>>' =
                    IF lastOp'.op = "quickScan" THEN <<NoText, NoText, 0>>
                    ELSE <<previousText, accumulatedText, scanCount>>
       /\ (lastOp'.op \in {"quickScan", "frame"} /\ lastOp'.ok)
          => /\ Len(ocrCalls') = Len(ocrCalls) + 1
             /\ isProcessing']_vars

\* a frame of the scan loop was of no size while text was accumulated
C17_Witness ==
    /\ lastOp.op = "frame"
    /\ lastOp.why = "invalid"
    /\ accumulatedText # NoText
    /\ ocrCalls = <<>>

\* C14 -- Stop clears the session: right after stopCamera the engine holds
\* no utterance, the queue holds nothing but what the stop itself enqueued,
\* and the convergence state (previous text, accumulated text, stable-scan
\* counter) has its initial values.
C14_StopClears ==
    lastOp.op = "stop"
        => /\ ttsQueue = <<>>
           /\ \A k \in DOMAIN speechQueue : speechQueue[k].id >= lastOp.id
           /\ previousText = NoText
           /\ accumulatedText = NoText
           /\ scanCount = 0

----------------------------------------------------------------------------
(* Properties of the image preprocessing, checked under SpecOtsu *)

MaxOf(S) == CHOOSE x \in S : \A y \in S : y <= x
TwoValued(data) == Cardinality(Range(data)) = 2

\* C20 -- Otsu threshold: two calls on frames with the same histogram return
\* the same threshold; for a frame of exactly two gray values a < b the
\* threshold t has a <= t < b, and binarization turns every a-pixel black
\* and every b-pixel white.
C20_OtsuThreshold ==
    /\ \A i, j \in DOMAIN otsuCalls :
         Histogram(otsuCalls[i].data) = Histogram(otsuCalls[j].data)
            => otsuCalls[i].threshold = otsuCalls[j].threshold
    /\ \A i \in DOMAIN otsuCalls :
         LET c == otsuCalls[i]
             a == MinOf(Range(c.data))
             b == MaxOf(Range(c.data))
         IN  TwoValued(c.data)
                => /\ a <= c.threshold
                   /\ c.threshold < b
                   /\ \A k \in DOMAIN c.data :
                        c.out[k] = IF c.data[k] = a THEN BLACK ELSE WHITE

\* two calls on different frames with the same histogram, of two
\* neighbouring gray values
C20_Witness ==
    /\ Len(otsuCalls) = 2
    /\ otsuCalls[1].data # otsuCalls[2].data
    /\ Histogram(otsuCalls[1].data) = Histogram(otsuCalls[2].data)
    /\ TwoValued(otsuCalls[2].data)
    /\ MaxOf(Range(otsuCalls[2].data)) = MinOf(Range(otsuCalls[2].data)) + 1
    /\ otsuCalls[2].out # otsuCalls[1].out

----------------------------------------------------------------------------
(* Properties of the bilingual fan-out, checked under SpecBoth *)

\* a priority event under "both" on an idle scheduler, undisturbed by other
\* calls, both of whose halves have been offered, the Hindi one accepted
BothPriorityDone(b) ==
    /\ b.stage = "done" /\ b.prio /\ b.idle /\ b.clean
    /\ b.hiId # 0

\* C29 -- A bilingual priority event speaks both languages: with "both"
\* selected, enqueueSpeakBoth(en, hi, true) on an idle scheduler gets its
\* English half accepted too, the English half never evicts the Hindi half
\* from the queue nor cancels it in flight, and the Hindi utterance has been
\* handed to the engine and has had its end callback before the English one
\* is handed over.
HindiKept ==
    (bothEvt' # bothEvt /\ BothPriorityDone(bothEvt'))
       => /\ bothEvt'.enId # 0
          /\ bothEvt'.hiId \in Ids(speechQueue') \cup Range(handed')
          /\ bothEvt'.hiId \notin ttsStale'
HindiFirst ==
    (/\ BothPriorityDone(bothEvt) /\ bothEvt.enId # 0
     /\ bothEvt.enId \in Range(handed') \ Range(handed))
       => /\ bothEvt.hiId \in Range(handed)
          /\ bothEvt.hiId \notin Range(ttsQueue) \cup ttsStale
C29_PriorityBoth == [][HindiKept /\ HindiFirst]_vars

\* C3 -- Bilingual ordering: with "both" selected, a non-priority event on an
\* idle scheduler whose Hindi half is accepted, and which no other enqueue
\* disturbs, also gets its English half accepted, after the Hindi one.
C3_BilingualOrdering ==
    (/\ bothEvt.stage = "done"
     /\ ~bothEvt.prio
     /\ bothEvt.idle
     /\ bothEvt.clean
     /\ bothEvt.hiId # 0)
        => /\ bothEvt.enId # 0
           /\ bothEvt.hiId < bothEvt.enId

====
